---- MODULE Spec2Model ----
(***************************************************************************)
(* A model of libraries/serial_ports/simple_uart.c: the table of UART bus  *)
(* slots (initialized[], fd[]), the lifecycle functions initialize_uart    *)
(* and close_uart, the facade get_uart_fd / flush_uart, the senders        *)
(* uart_send_bytes / uart_send_byte, and the blocking, cancellable read    *)
(* uart_read_bytes with its depleting select() timeout.                    *)
(*                                                                         *)
(* The operating system is part of the model: the table of open file       *)
(* descriptors, the input queue of every serial device, the time a         *)
(* select() spends asleep, and the outcome of every OS call, which is free *)
(* to succeed or to fail.                                                  *)
(***************************************************************************)
EXTENDS Integers, Sequences, FiniteSets, TLC

\* ------------------------------------------------------------ constants
MIN_BUS == 0
MAX_BUS == 5

\* open() returns the lowest free descriptor; 0, 1 and 2 are the standard streams.
FirstFd == 3

\* ---------------------------------------------------------------- bounds
\* One step of time, in milliseconds; timeouts are multiples of it.
TickMs == 500
\* The largest timeout_ms tried is MaxTicks * TickMs.
MaxTicks == 2
\* The largest byte count asked of a send or a read.
MaxBytes == 2
\* Byte values are 0..MaxByte: a device's source sends 0, 1, ..., MaxByte, 0, 1, ...
MaxByte == 1
\* The most bytes a device's input queue holds unread.
MaxQueue == 2
\* The most descriptors the process may hold open (open() then fails, EMFILE).
MaxOpenFds == 2

\* ---------------------------------------------------------------- inputs
Buses == MIN_BUS..MAX_BUS
BusInputs == {MIN_BUS - 1, MIN_BUS, MAX_BUS, MAX_BUS + 1}
\* The devices bytes arrive on.
ArrivalBuses == {MIN_BUS}
\* The loop-back: what is written on the device of LoopFrom arrives at once, in
\* order, on the device of LoopTo.
LoopFrom == MAX_BUS
LoopTo == MIN_BUS
ValidBauds ==
    {230400, 115200, 57600, 38400, 19200, 9600, 4800, 2400, 1800,
     1200, 600, 300, 200, 150, 134, 110, 75, 50}
BaudInputs == {115200, 50, 0, 100}
ByteCounts == 0..MaxBytes
TimeoutInputs == {-TickMs} \cup {k * TickMs : k \in 0..MaxTicks}
TickUs == TickMs * 1000
Errnos == {"EINTR", "EINVAL", "ENOMEM"}

VARIABLES
    initialized,   \* int initialized[6]
    fd,            \* int fd[6]
    flow_state,    \* what get_state() returns: "RUNNING" or "EXITING"
    openFds,       \* OS: open descriptor -> the bus whose device it is open on
    rxq,           \* OS: per device, the bytes received and not yet read
    nextByte,      \* per device, the byte its source sends next
    sent,          \* history: the uart_send_bytes call just made on LoopFrom, until a
                   \* call other than the uart_read_bytes that follows it is made
    pc,            \* the caller: "idle", inside uart_read_bytes ("while", "select",
                   \* "read"), or "returned" with the value of a call in hand
    op,            \* the function called last (or running)
    bus,           \* its bus argument
    baudrate,      \* its baudrate argument (initialize_uart)
    bytes,         \* its bytes argument (uart_send_bytes, uart_read_bytes)
    timeout_ms,    \* its timeout_ms argument (uart_read_bytes)
    result,        \* the value the call returned
    syscalls,      \* the OS calls the call made, each kind once, in order of first use
    buf,           \* uart_read_bytes: the caller's buffer, offset -> byte (-1: not written)
    bytes_read,    \* uart_read_bytes: local
    bytes_left,    \* uart_read_bytes: local
    timeout,       \* uart_read_bytes: struct timeval timeout
    ret,           \* uart_read_bytes: local, what select() / read() returned
    slept,         \* OS: microseconds the select() in flight has been asleep
    cause,         \* history: why uart_read_bytes returned
    waited,        \* history: microseconds spent in the completed select() waits of the call
    taken,         \* history: the bytes read() handed to the call, in order
    sinceArr,      \* history: ticks since the last arrival on the bus read (or the call's start)
    gapsShort,     \* history: every such gap of the call has been shorter than timeout_ms
    sawEof,        \* history: a select() of the call reported readable with nothing to read
    exitInWait,    \* history: get_state() became EXITING while the call was inside select()
    selectsExiting,\* history: select() calls started while get_state() was EXITING
    readsExiting   \* history: read() calls made while get_state() was EXITING

globals == <<initialized, fd>>
os == <<openFds, rxq, nextByte>>
args == <<op, bus, baudrate, bytes, timeout_ms>>
locals == <<buf, bytes_read, bytes_left, timeout, ret>>
history == <<cause, waited, taken, sinceArr, gapsShort, sawEof, exitInWait,
             selectsExiting, readsExiting>>
vars == <<globals, flow_state, os, pc, args, result, syscalls, locals, slept, history, sent>>

\* ------------------------------------------------------------- helpers
Min(a, b) == IF a < b THEN a ELSE b
Range(s) == {s[i] : i \in 1..Len(s)}
LogCall(calls, c) == IF c \in Range(calls) THEN calls ELSE Append(calls, c)

\* C's integer division and remainder truncate toward zero (b > 0).
CDiv(a, b) == IF a >= 0 THEN a \div b ELSE -((-a) \div b)
CRem(a, b) == a - b * CDiv(a, b)

\* struct timeval
TvUs(tv) == tv.tv_sec * 1000000 + tv.tv_usec
UsTv(us) == [tv_sec |-> us \div 1000000, tv_usec |-> us % 1000000]
TvValid(tv) == tv.tv_sec >= 0 /\ tv.tv_usec >= 0 /\ tv.tv_usec < 1000000
TvZero == [tv_sec |-> 0, tv_usec |-> 0]

\* Mutant: the milliseconds left over are taken for microseconds.
timeval_of_ms_Unscaled(ms) ==
    [tv_sec |-> CDiv(ms, 1000), tv_usec |-> CRem(ms, 1000)]

\* timeout.tv_sec = timeout_ms/1000; timeout.tv_usec = (timeout_ms % 1000) * 1000;
timeval_of_ms(ms) ==
    [tv_sec |-> CDiv(ms, 1000), tv_usec |-> CRem(ms, 1000) * 1000]

\* Mutant: a switch whose default case hands on the number it was given.
Speed_NoDefault(b) == <<"B", b>>

\* The speed_t of a baudrate: the switch of initialize_uart.
NoSpeed == "default"
Speed(b) == IF b \in ValidBauds THEN <<"B", b>> ELSE NoSpeed

\* ------------------------------------------------------- the OS, as values
\* A world is the part of the state a non-blocking call can change.
World ==
    [initialized |-> initialized, fd |-> fd, openFds |-> openFds,
     rxq |-> rxq, nextByte |-> nextByte, syscalls |-> <<>>]
Outcome(r, w) == [result |-> r, w |-> w]
Called(w, c) == [w EXCEPT !.syscalls = LogCall(@, c)]

IsOpen(fds, f) == f \in DOMAIN fds
DeviceOpen(fds, d) == \E f \in DOMAIN fds : fds[f] = d
LowestFree(fds) ==
    CHOOSE f \in FirstFd..(FirstFd + Cardinality(DOMAIN fds)) :
        /\ f \notin DOMAIN fds
        /\ \A g \in FirstFd..(f - 1) : g \in DOMAIN fds

\* close(f): the descriptor is released; the last close of a device drops its input.
OsClose(w, f) ==
    LET fds == [g \in DOMAIN w.openFds \ {f} |-> w.openFds[g]]
        q == [d \in Buses |-> IF DeviceOpen(fds, d) THEN w.rxq[d] ELSE <<>>]
    IN  [Called(w, "close") EXCEPT !.openFds = fds, !.rxq = q]

\* open(paths[b], O_RDWR | O_NOCTTY): a new descriptor, or -1.
CanOpen(fds) == Cardinality(DOMAIN fds) < MaxOpenFds
OsOpen(w, b, ok) ==
    IF ok /\ CanOpen(w.openFds)
    THEN LET f == LowestFree(w.openFds)
         IN  Outcome(f, [Called(w, "open") EXCEPT !.openFds = (f :> b) @@ @])
    ELSE Outcome(-1, Called(w, "open"))

\* Mutant: the attributes are set and the queue selected, but no input is discarded
\* (TCSANOW, TCOFLUSH).
DiscardInput_Keeps(w, f) == w

\* Discarding the input received on descriptor f and not read (TCIFLUSH, TCSAFLUSH).
DiscardInput(w, f) ==
    IF IsOpen(w.openFds, f) THEN [w EXCEPT !.rxq[w.openFds[f]] = <<>>] ELSE w

\* tcflush(f, TCIFLUSH)
OsTcflush(w, f, ok) ==
    IF ok /\ IsOpen(w.openFds, f)
    THEN Outcome(0, DiscardInput(Called(w, "tcflush"), f))
    ELSE Outcome(-1, Called(w, "tcflush"))

\* tcsetattr(f, TCSAFLUSH, &config)
OsTcsetattr(w, f, ok) ==
    IF ok /\ IsOpen(w.openFds, f)
    THEN Outcome(0, DiscardInput(Called(w, "tcsetattr"), f))
    ELSE Outcome(-1, Called(w, "tcsetattr"))

\* The n bytes that continue the sequence of the source of device d.
Payload(next, d, n) == [i \in 1..n |-> (next[d] + i - 1) % (MaxByte + 1)]

\* write(f, data, n): the number of bytes accepted, or -1. Bytes accepted on the
\* device of LoopFrom arrive on the device of LoopTo, if it is open and as far as
\* its queue has room for them.
OsWrite(w, f, n, accepted) ==
    IF accepted >= 0 /\ IsOpen(w.openFds, f)
    THEN LET k == Min(accepted, n)
             looped == w.openFds[f] = LoopFrom /\ DeviceOpen(w.openFds, LoopTo)
             fit == IF looped THEN Min(k, MaxQueue - Len(w.rxq[LoopTo])) ELSE 0
         IN  Outcome(k, [Called(w, "write") EXCEPT
                           !.rxq[LoopTo] = @ \o Payload(w.nextByte, LoopTo, fit),
                           !.nextByte[LoopTo] = (@ + fit) % (MaxByte + 1)])
    ELSE Outcome(-1, Called(w, "write"))

\* ------------------------------------------------- the functions, as values
BadBus(b) == b < MIN_BUS \/ b > MAX_BUS

\* Mutant: close_uart leaves the flag set.
close_uart_KeepsFlag(w, b) ==
    IF BadBus(b) THEN Outcome(-1, w)
    ELSE IF w.initialized[b] = 0 THEN Outcome(0, w)
    ELSE Outcome(0, OsClose(w, w.fd[b]))

close_uart(w, b) ==
    IF BadBus(b) THEN Outcome(-1, w)
    ELSE IF w.initialized[b] = 0 THEN Outcome(0, w)
    ELSE Outcome(0, [OsClose(w, w.fd[b]) EXCEPT !.initialized[b] = 0])

get_uart_fd(w, b) ==
    IF BadBus(b) THEN Outcome(-1, w)
    ELSE IF w.initialized[b] = 0 THEN Outcome(-1, w)
    ELSE Outcome(w.fd[b], w)

\* Mutant: flush_uart gives the bus up when tcflush() fails.
flush_uart_DropsBus(w, b, flushOk) ==
    IF BadBus(b) THEN Outcome(-1, w)
    ELSE IF w.initialized[b] = 0 THEN Outcome(-1, w)
    ELSE LET out == OsTcflush(w, w.fd[b], flushOk)
         IN  IF out.result < 0
             THEN Outcome(-1, [out.w EXCEPT !.initialized[b] = 0])
             ELSE out

flush_uart(w, b, flushOk) ==
    IF BadBus(b) THEN Outcome(-1, w)
    ELSE IF w.initialized[b] = 0 THEN Outcome(-1, w)
    ELSE OsTcflush(w, w.fd[b], flushOk)

\* Mutant: initialize_uart sets initialized[bus] as soon as open() has succeeded.
initialize_uart_FlagAfterOpen(w, b, baud, failAt) ==
    IF BadBus(b) THEN Outcome(-1, w)
    ELSE IF Speed(baud) = NoSpeed THEN Outcome(-1, w)
    ELSE
      LET closed == close_uart(w, b).w
          opened == OsOpen(closed, b, failAt # "open")
          w1 == [opened.w EXCEPT !.fd[b] = opened.result]
          w1f == [w1 EXCEPT !.initialized[b] = 1]
          w2 == Called(w1f, "cfsetispeed")
          w3 == Called(w2, "cfsetospeed")
          attr == OsTcsetattr(w3, w1.fd[b], failAt # "tcsetattr")
      IN  IF opened.result < 0 THEN Outcome(-1, w1)
          ELSE IF failAt = "cfsetispeed" THEN Outcome(-1, w2)
          ELSE IF failAt = "cfsetospeed" THEN Outcome(-1, w3)
          ELSE IF attr.result < 0 THEN Outcome(-1, attr.w)
          ELSE Outcome(0, flush_uart(attr.w, b, failAt # "tcflush").w)

\* failAt: the first OS call of the function to fail, should the function come to
\* make it ("none": every call succeeds).
initialize_uart(w, b, baud, failAt) ==
    IF BadBus(b) THEN Outcome(-1, w)
    ELSE IF Speed(baud) = NoSpeed THEN Outcome(-1, w)
    ELSE
      LET closed == close_uart(w, b).w
          opened == OsOpen(closed, b, failAt # "open")
          w1 == [opened.w EXCEPT !.fd[b] = opened.result]
          w2 == Called(w1, "cfsetispeed")
          w3 == Called(w2, "cfsetospeed")
          attr == OsTcsetattr(w3, w1.fd[b], failAt # "tcsetattr")
          w4 == [attr.w EXCEPT !.initialized[b] = 1]
      IN  IF opened.result < 0 THEN Outcome(-1, w1)
          ELSE IF failAt = "cfsetispeed" THEN Outcome(-1, w2)
          ELSE IF failAt = "cfsetospeed" THEN Outcome(-1, w3)
          ELSE IF attr.result < 0 THEN Outcome(-1, attr.w)
          ELSE Outcome(0, flush_uart(w4, b, failAt # "tcflush").w)

\* Mutant: uart_send_bytes without its check of bytes.
uart_send_bytes_NoCountCheck(w, b, n, accepted) ==
    IF BadBus(b) THEN Outcome(-1, w)
    ELSE IF w.initialized[b] = 0 THEN Outcome(-1, w)
    ELSE OsWrite(w, w.fd[b], n, accepted)

\* Mutant: uart_send_bytes writes to the descriptor of the first slot.
uart_send_bytes_WrongSlot(w, b, n, accepted) ==
    IF BadBus(b) THEN Outcome(-1, w)
    ELSE IF n < 1 THEN Outcome(-1, w)
    ELSE IF w.initialized[b] = 0 THEN Outcome(-1, w)
    ELSE OsWrite(w, w.fd[MIN_BUS], n, accepted)

uart_send_bytes(w, b, n, accepted) ==
    IF BadBus(b) THEN Outcome(-1, w)
    ELSE IF n < 1 THEN Outcome(-1, w)
    ELSE IF w.initialized[b] = 0 THEN Outcome(-1, w)
    ELSE OsWrite(w, w.fd[b], n, accepted)

\* Mutant: uart_send_byte without its check of bus; beyond the arrays it finds a
\* nonzero flag and descriptor 0.
uart_send_byte_NoBusCheck(w, b, accepted) ==
    IF BadBus(b) THEN OsWrite(w, 0, 1, accepted)
    ELSE IF w.initialized[b] = 0 THEN Outcome(-1, w)
    ELSE OsWrite(w, w.fd[b], 1, accepted)

uart_send_byte(w, b, accepted) ==
    IF BadBus(b) THEN Outcome(-1, w)
    ELSE IF w.initialized[b] = 0 THEN Outcome(-1, w)
    ELSE OsWrite(w, w.fd[b], 1, accepted)

\* No uart_send_bytes on LoopFrom has just been made.
NoSend == [data |-> <<>>, ret |-> -1, clean |-> FALSE]

\* ------------------------------------------------------------------ Init
\* The arrays are zero-initialised globals; nothing is open; the process runs.
Init ==
    /\ initialized = [b \in Buses |-> 0]
    /\ fd = [b \in Buses |-> 0]
    /\ flow_state = "RUNNING"
    /\ openFds = <<>>
    /\ rxq = [b \in Buses |-> <<>>]
    /\ nextByte = [b \in Buses |-> 0]
    /\ sent = NoSend
    /\ pc = "idle"
    /\ op = "none" /\ bus = 0 /\ baudrate = 0 /\ bytes = 0 /\ timeout_ms = 0
    /\ result = 0
    /\ syscalls = <<>>
    /\ buf = <<>> /\ bytes_read = 0 /\ bytes_left = 0 /\ timeout = TvZero /\ ret = 0
    /\ slept = 0
    /\ cause = "none" /\ waited = 0 /\ taken = <<>> /\ sinceArr = 0 /\ gapsShort = TRUE
    /\ sawEof = FALSE /\ exitInWait = FALSE
    /\ selectsExiting = 0 /\ readsExiting = 0

\* ------------------------------------------------ calls that do not block
\* A call starts with fresh locals and a fresh history.
FreshCall(name, b, baud, n, t) ==
    /\ op' = name /\ bus' = b /\ baudrate' = baud /\ bytes' = n /\ timeout_ms' = t
    /\ buf' = <<>> /\ bytes_read' = 0 /\ bytes_left' = 0 /\ timeout' = TvZero /\ ret' = 0
    /\ slept' = 0
    /\ cause' = "none" /\ waited' = 0 /\ taken' = <<>> /\ sinceArr' = 0 /\ gapsShort' = TRUE
    /\ sawEof' = FALSE /\ exitInWait' = FALSE
    /\ selectsExiting' = 0 /\ readsExiting' = 0

\* The call returns out.result and leaves the world out.w.
Returns(out) ==
    /\ pc' = "returned"
    /\ result' = out.result
    /\ initialized' = out.w.initialized
    /\ fd' = out.w.fd
    /\ openFds' = out.w.openFds
    /\ rxq' = out.w.rxq
    /\ nextByte' = out.w.nextByte
    /\ syscalls' = out.w.syscalls
    /\ UNCHANGED flow_state

FailPoints == {"none", "open", "cfsetispeed", "cfsetospeed", "tcsetattr", "tcflush"}

\* The caller takes the value returned and is free to make its next call.
Ack ==
    /\ pc = "returned"
    /\ pc' = "idle"
    /\ FreshCall("none", 0, 0, 0, 0)
    /\ result' = 0
    /\ syscalls' = <<>>
    /\ sent' = IF op = "uart_read_bytes" THEN NoSend ELSE sent
    /\ UNCHANGED <<globals, flow_state, os>>

Call_initialize_uart(b, baud, failAt) ==
    /\ pc = "idle"
    /\ FreshCall("initialize_uart", b, baud, 0, 0)
    /\ Returns(initialize_uart(World, b, baud, failAt))
    /\ sent' = NoSend

Call_close_uart(b) ==
    /\ pc = "idle"
    /\ FreshCall("close_uart", b, 0, 0, 0)
    /\ Returns(close_uart(World, b))
    /\ sent' = NoSend

Call_get_uart_fd(b) ==
    /\ pc = "idle"
    /\ FreshCall("get_uart_fd", b, 0, 0, 0)
    /\ Returns(get_uart_fd(World, b))
    /\ sent' = NoSend

Call_flush_uart(b, flushOk) ==
    /\ pc = "idle"
    /\ FreshCall("flush_uart", b, 0, 0, 0)
    /\ Returns(flush_uart(World, b, flushOk))
    /\ sent' = NoSend

Call_uart_send_bytes(b, n, accepted) ==
    /\ pc = "idle"
    /\ FreshCall("uart_send_bytes", b, 0, n, 0)
    /\ Returns(uart_send_bytes(World, b, n, accepted))
    /\ sent' = IF b = LoopFrom /\ result' >= 0
               THEN [data |-> Payload(nextByte, LoopTo, n), ret |-> result',
                     clean |-> DeviceOpen(openFds, LoopTo) /\ rxq[LoopTo] = <<>>]
               ELSE NoSend

Call_uart_send_byte(b, accepted) ==
    /\ pc = "idle"
    /\ FreshCall("uart_send_byte", b, 0, 0, 0)
    /\ Returns(uart_send_byte(World, b, accepted))
    /\ sent' = NoSend

\* ------------------------------------------------------- uart_read_bytes
\* The device the descriptor of the bus being read is open on.
ReadFd == fd[bus]
Readable == IsOpen(openFds, ReadFd) /\ rxq[openFds[ReadFd]] # <<>>

\* return v; from inside uart_read_bytes
ReadReturns(v, why) ==
    /\ pc' = "returned"
    /\ result' = v
    /\ cause' = why
    /\ sinceArr' = 0

\* The sanity checks, bytes_read = 0, bytes_left = bytes, and the timeout set up
\* OUTSIDE of the read loop.
Call_uart_read_bytes(b, n, t) ==
    /\ pc = "idle"
    /\ UNCHANGED sent
    /\ op' = "uart_read_bytes" /\ bus' = b /\ baudrate' = 0 /\ bytes' = n /\ timeout_ms' = t
    /\ slept' = 0 /\ waited' = 0 /\ taken' = <<>> /\ gapsShort' = (TickMs <= t)
    /\ sawEof' = FALSE /\ exitInWait' = FALSE
    /\ selectsExiting' = 0 /\ readsExiting' = 0
    /\ syscalls' = <<>>
    /\ ret' = 0
    /\ IF BadBus(b) \/ n < 1 \/ initialized[b] = 0
       THEN /\ ReadReturns(-1, "invalid")
            /\ buf' = <<>> /\ bytes_read' = 0 /\ bytes_left' = 0 /\ timeout' = TvZero
       ELSE /\ pc' = "while"
            /\ result' = 0
            /\ cause' = "none"
            /\ sinceArr' = 0
            /\ buf' = [i \in 1..n |-> -1]
            /\ bytes_read' = 0
            /\ bytes_left' = n
            /\ timeout' = timeval_of_ms(t)
    /\ UNCHANGED <<globals, flow_state, os>>

\* Mutant: a do-while loop, which looks at get_state() only after its first pass.
LoopCondition_AfterFirstPass ==
    bytes_left > 0 /\ (flow_state # "EXITING" \/ syscalls = <<>>)

\* Mutant: the loop does not look at get_state().
LoopCondition_IgnoresState == bytes_left > 0

\* while((bytes_left>0)&&get_state()!=EXITING)
LoopCondition == bytes_left > 0 /\ flow_state # "EXITING"

\* The loop's test: into select() with the timeout tv, or out of the loop to the
\* final return bytes_read.
WhileStep(tv) ==
    /\ pc = "while"
    /\ UNCHANGED sent
    /\ IF LoopCondition
       THEN /\ pc' = "select"
            /\ syscalls' = LogCall(syscalls, "select")
            /\ selectsExiting' = selectsExiting + (IF flow_state = "EXITING" THEN 1 ELSE 0)
            /\ UNCHANGED <<result, cause, sinceArr>>
       ELSE /\ ReadReturns(bytes_read, IF bytes_left > 0 THEN "exiting" ELSE "full")
            /\ UNCHANGED <<syscalls, selectsExiting>>
    /\ timeout' = tv
    /\ slept' = 0
    /\ UNCHANGED <<globals, flow_state, os, args, buf, bytes_read, bytes_left, ret,
                   waited, taken, gapsShort, sawEof, exitInWait, readsExiting>>

\* Mutant: the timeout is set up inside the loop, afresh for every select().
WhileTest_TimeoutInLoop == WhileStep(timeval_of_ms(timeout_ms))

\* The loop is entered with the timeout as the last select() left it: it is set up
\* before the loop and nowhere in it.
WhileTest == WhileStep(timeout)

\* What select() leaves in the timeout it was given, having slept for s microseconds
\* (Linux: the time not slept).
TimeLeft(tv, s) == UsTv(TvUs(tv) - s)

\* select() asleep: a tick of time passes with nothing to read and budget left.
\* After it the gap since the last arrival is at least sinceArr + 1 ticks, and stays
\* shorter than timeout_ms only if the next byte comes before one more tick.
Tick ==
    /\ pc = "select"
    /\ UNCHANGED sent
    /\ TvValid(timeout)
    /\ ~Readable
    /\ slept + TickUs <= TvUs(timeout)
    /\ slept' = slept + TickUs
    /\ sinceArr' = sinceArr + 1
    /\ gapsShort' = (gapsShort /\ (sinceArr + 2) * TickMs <= timeout_ms)
    /\ UNCHANGED <<globals, flow_state, os, pc, args, result, syscalls, locals,
                   cause, waited, taken, sawEof, exitInWait, selectsExiting, readsExiting>>

\* select() returns 1: the descriptor is readable. eof: it is readable with nothing
\* to read, as after a hang-up.
SelectReadable(eof) ==
    /\ pc = "select"
    /\ UNCHANGED sent
    /\ TvValid(timeout)
    /\ IF eof THEN IsOpen(openFds, ReadFd) /\ ~Readable ELSE Readable
    /\ ret' = 1
    /\ timeout' = TimeLeft(timeout, slept)
    /\ waited' = waited + slept
    /\ slept' = 0
    /\ pc' = "read"
    /\ sawEof' = (sawEof \/ eof)
    /\ UNCHANGED <<globals, flow_state, os, args, result, syscalls,
                   buf, bytes_read, bytes_left,
                   cause, taken, sinceArr, gapsShort, exitInWait, selectsExiting, readsExiting>>

\* select() returns 0: the timeout ran out (no further tick fits in it) with
\* nothing to read. The whole of it has been waited, and none is left.
SelectTimeout ==
    /\ pc = "select"
    /\ UNCHANGED sent
    /\ TvValid(timeout)
    /\ ~Readable
    /\ slept + TickUs > TvUs(timeout)
    /\ ret' = 0
    /\ timeout' = TvZero
    /\ waited' = waited + TvUs(timeout)
    /\ slept' = 0
    /\ ReadReturns(bytes_read, "timeout")
    /\ UNCHANGED <<globals, flow_state, os, args, syscalls,
                   buf, bytes_read, bytes_left,
                   taken, gapsShort, sawEof, exitInWait, selectsExiting, readsExiting>>

\* Mutant: whatever errno says, a failed select() returns bytes_read.
SelectFailed_AnyErrno(errno) ==
    ReadReturns(bytes_read, IF errno # "EINTR" THEN "select_error" ELSE "interrupted")

\* if(ret == -1): return -1 unless errno is EINTR, and then return bytes_read.
SelectFailed(errno) ==
    IF errno # "EINTR"
    THEN ReadReturns(-1, "select_error")
    ELSE ReadReturns(bytes_read, "interrupted")

\* select() returns -1: interrupted by a signal (EINTR) at any moment of the wait,
\* or refused on entry, as an invalid timeout always is (EINVAL).
SelectError(errno) ==
    /\ pc = "select"
    /\ UNCHANGED sent
    /\ TvValid(timeout) <=> errno # "EINVAL"
    /\ errno = "EINTR" \/ slept = 0
    /\ ret' = -1
    /\ timeout' = IF errno = "EINTR" THEN TimeLeft(timeout, slept) ELSE timeout
    /\ waited' = waited + slept
    /\ slept' = 0
    /\ SelectFailed(errno)
    /\ UNCHANGED <<globals, flow_state, os, args, syscalls,
                   buf, bytes_read, bytes_left,
                   taken, gapsShort, sawEof, exitInWait, selectsExiting, readsExiting>>

\* Mutant: read() is handed buf, not buf+bytes_read.
BufWrite_AtStart(b, offset, data) ==
    [i \in 1..Len(b) |-> IF i <= Len(data) THEN data[i] ELSE b[i]]

\* buf+bytes_read: data lands in the buffer from offset on (index offset + 1 of b).
BufWrite(b, offset, data) ==
    [i \in 1..Len(b) |->
        IF i > offset /\ i <= offset + Len(data) THEN data[i - offset] ELSE b[i]]

\* Mutant: read() is asked for bytes, not for bytes_left.
ReadResults_AsksAll ==
    {-1} \cup (IF Readable THEN 1..Min(bytes, Len(rxq[openFds[ReadFd]])) ELSE {0})

\* What read(fd[bus], ..., bytes_left) may return: some of the bytes there are, up
\* to bytes_left; 0 when there are none; or an error.
ReadResults ==
    {-1} \cup (IF Readable THEN 1..Min(bytes_left, Len(rxq[openFds[ReadFd]])) ELSE {0})

\* ret=read(fd[bus], buf+bytes_read, bytes_left) and what the loop does with ret.
Read(got) ==
    /\ pc = "read"
    /\ UNCHANGED sent
    /\ got \in ReadResults
    /\ ret' = got
    /\ syscalls' = LogCall(syscalls, "read")
    /\ readsExiting' = readsExiting + (IF flow_state = "EXITING" THEN 1 ELSE 0)
    /\ IF got < 0
       THEN /\ ReadReturns(-1, "read_error")
            /\ UNCHANGED <<os, buf, bytes_read, bytes_left, taken>>
       ELSE IF got > 0
       THEN LET d == openFds[ReadFd]
                data == SubSeq(rxq[d], 1, got)
            IN  /\ rxq' = [rxq EXCEPT ![d] = SubSeq(@, got + 1, Len(@))]
                /\ buf' = BufWrite(buf, bytes_read, data)
                /\ taken' = taken \o data
                /\ bytes_read' = bytes_read + got
                /\ bytes_left' = bytes_left - got
                /\ pc' = "while"
                /\ UNCHANGED <<openFds, nextByte, result, cause, sinceArr>>
       ELSE /\ pc' = "while"
            /\ UNCHANGED <<os, buf, bytes_read, bytes_left, taken, result, cause, sinceArr>>
    /\ UNCHANGED <<globals, flow_state, args, timeout, slept,
                   waited, gapsShort, sawEof, exitInWait, selectsExiting>>

\* ------------------------------------------------------- the environment
\* The next byte of its source arrives on a device that is open. (While the caller
\* stands at "returned" no time passes: what the environment does next, it does once
\* the caller is idle.)
Arrive(d) ==
    /\ pc # "returned"
    /\ UNCHANGED sent
    /\ DeviceOpen(openFds, d)
    /\ Len(rxq[d]) < MaxQueue
    /\ rxq' = [rxq EXCEPT ![d] = Append(@, nextByte[d])]
    /\ nextByte' = [nextByte EXCEPT ![d] = (@ + 1) % (MaxByte + 1)]
    /\ sinceArr' = IF pc # "idle" /\ IsOpen(openFds, ReadFd) /\ openFds[ReadFd] = d
                   THEN 0 ELSE sinceArr
    /\ UNCHANGED <<globals, flow_state, openFds, pc, args, result, syscalls, locals,
                   slept, cause, waited, taken, gapsShort, sawEof, exitInWait,
                   selectsExiting, readsExiting>>

\* The owner of the flow state sets it to EXITING; the process is then on its way out.
SetExiting ==
    /\ pc # "returned"
    /\ UNCHANGED sent
    /\ flow_state = "RUNNING"
    /\ flow_state' = "EXITING"
    /\ exitInWait' = (pc = "select")
    /\ UNCHANGED <<globals, os, pc, args, result, syscalls, locals, slept,
                   cause, waited, taken, sinceArr, gapsShort, sawEof,
                   selectsExiting, readsExiting>>

\* ------------------------------------------------------------------ Next
Next ==
    \/ /\ pc = "idle"
       /\ \E b \in BusInputs, baud \in BaudInputs, failAt \in FailPoints :
              Call_initialize_uart(b, baud, failAt)
    \/ /\ pc = "idle"
       /\ \E b \in BusInputs : Call_close_uart(b)
    \/ /\ pc = "idle"
       /\ \E b \in BusInputs : Call_get_uart_fd(b)
    \/ /\ pc = "idle"
       /\ \E b \in BusInputs, flushOk \in BOOLEAN : Call_flush_uart(b, flushOk)
    \/ /\ pc = "idle"
       /\ \E b \in BusInputs, n \in ByteCounts, accepted \in -1..MaxBytes :
              Call_uart_send_bytes(b, n, accepted)
    \/ /\ pc = "idle"
       /\ \E b \in BusInputs, accepted \in -1..1 : Call_uart_send_byte(b, accepted)
    \/ /\ pc = "idle"
       /\ \E b \in BusInputs, n \in ByteCounts, t \in TimeoutInputs :
              Call_uart_read_bytes(b, n, t)
    \/ WhileTest
    \/ Tick
    \/ /\ pc = "select"
       /\ \E eof \in BOOLEAN : SelectReadable(eof)
    \/ SelectTimeout
    \/ /\ pc = "select"
       /\ \E errno \in Errnos : SelectError(errno)
    \/ /\ pc = "read"
       /\ \E got \in -1..MaxBytes : Read(got)
    \/ Ack
    \/ /\ pc # "returned"
       /\ \E d \in ArrivalBuses : Arrive(d)
    \/ SetExiting

Spec == Init /\ [][Next]_vars

\* One step of the thread inside uart_read_bytes: the loop test, the clock of its
\* select(), select() returning, read() returning.
ReadStep ==
    \/ WhileTest
    \/ Tick
    \/ \E eof \in BOOLEAN : SelectReadable(eof)
    \/ SelectTimeout
    \/ \E errno \in Errnos : SelectError(errno)
    \/ \E got \in -1..MaxBytes : Read(got)

\* The thread that called uart_read_bytes keeps running and the clock keeps going.
FairSpec == Spec /\ WF_vars(ReadStep)

\* ============================================================== claims
ReadCall == op = "uart_read_bytes"
Returned == pc = "returned"
\* The slot of bus b holds an open handle: a descriptor that is open, on b's device.
HoldsOpenHandle(b) == IsOpen(openFds, fd[b]) /\ openFds[fd[b]] = b
\* The bytes the call has put in the buffer are those read() handed it, in order,
\* and nothing is written past them.
BufferHoldsTaken ==
    /\ Len(taken) = bytes_read
    /\ Len(buf) = bytes
    /\ \A i \in 1..Len(buf) : buf[i] = (IF i <= bytes_read THEN taken[i] ELSE -1)
\* The bytes handed over are consecutive bytes of the device's source.
InArrivalOrder ==
    \A i \in 1..(Len(taken) - 1) : taken[i + 1] = (taken[i] + 1) % (MaxByte + 1)
SlotsUnchanged == UNCHANGED <<initialized, fd, openFds, rxq>>

\* --------------------------------------------------------------------- C1
\* C1: within one call of uart_read_bytes with timeout T >= 0, the budget is set
\* once from T and only depletes: the timeout a wait is given is T less all the time
\* the earlier waits of the call took, and the time spent in all its waits, the one
\* in flight included, never exceeds T.
C1_BudgetDepletes ==
    (ReadCall /\ cause # "invalid" /\ timeout_ms >= 0) =>
        /\ TvValid(timeout)
        /\ TvUs(timeout) = timeout_ms * 1000 - waited
        /\ waited + slept <= timeout_ms * 1000
        /\ slept <= TvUs(timeout)

\* A second wait of a call is in flight on what the first one left of 2 ticks.
C1_Witness ==
    /\ ReadCall /\ pc = "select"
    /\ timeout_ms = 2 * TickMs
    /\ waited = TickUs
    /\ TvUs(timeout) = TickUs
    /\ slept = TickUs

\* --------------------------------------------------------------------- C2
\* C2: after any sequence of calls, whatever the OS calls answer, every bus slot
\* holds an open handle if and only if its initialized flag is set.
C2_HandleIffInitialized ==
    \A b \in Buses : HoldsOpenHandle(b) <=> initialized[b] = 1

AllWithinBudget ==
    (Returned /\ ReadCall /\ cause \in {"full", "timeout"}) =>
        /\ result = bytes_read
        /\ BufferHoldsTaken
        /\ InArrivalOrder
        /\ \/ cause = "full" /\ result = bytes
           \/ /\ cause = "timeout" /\ result < bytes
              /\ waited = timeout_ms * 1000
              /\ ~Readable

CancelBounded ==
    /\ selectsExiting = 0
    /\ readsExiting <= 1
    /\ (pc = "select" /\ TvValid(timeout)) => slept <= TvUs(timeout)
    /\ (Returned /\ ReadCall /\ exitInWait /\ cause \notin {"select_error", "read_error"}) =>
           /\ cause \in {"exiting", "timeout", "interrupted", "full"}
           /\ result = bytes_read
           /\ result >= 0 /\ result <= bytes
           /\ BufferHoldsTaken

CallStep == pc = "idle" /\ pc' # "idle"

\* The call made has returned the error result at once, with no OS call and no slot
\* changed.
RefusedUntouched ==
    /\ pc' = "returned"
    /\ result' = -1
    /\ syscalls' = <<>>
    /\ SlotsUnchanged

\* --------------------------------------------------------------------- C6
\* C6: called with a bus index outside MIN_BUS..MAX_BUS, each of the seven functions
\* returns -1, makes no OS call, and leaves every slot's handle and flag (and what is
\* open in the OS) as they were.
C6_BadBusRefused ==
    [][(CallStep /\ BadBus(bus')) => RefusedUntouched]_vars

\* uart_send_byte on bus MAX_BUS + 1 was refused while bus 0 was open.
C6_Witness ==
    /\ Returned /\ op = "uart_send_byte" /\ bus = MAX_BUS + 1
    /\ result = -1 /\ syscalls = <<>>
    /\ initialized[MIN_BUS] = 1 /\ HoldsOpenHandle(MIN_BUS)

\* --------------------------------------------------------------------- C7
\* C7: initialize_uart on a valid bus with a baudrate the switch does not accept
\* returns -1 and leaves the bus as it was: an open bus stays initialized with its
\* handle open, a closed bus stays closed, and no OS call is made.
C7_BadBaudKeepsBus ==
    [][(CallStep /\ op' = "initialize_uart" /\ ~BadBus(bus') /\ baudrate' \notin ValidBauds)
          => RefusedUntouched]_vars

\* initialize_uart with baudrate 100 was refused on bus 0, which is still open.
C7_Witness ==
    /\ Returned /\ op = "initialize_uart" /\ bus = MIN_BUS /\ baudrate = 100
    /\ result = -1 /\ syscalls = <<>>
    /\ initialized[MIN_BUS] = 1 /\ HoldsOpenHandle(MIN_BUS)

\* --------------------------------------------------------------------- C8
\* C8: close_uart on a valid bus returns 0; on a bus that is not initialized it makes
\* no OS call and changes nothing; on an initialized bus it makes one close; and a
\* second close_uart right after it returns 0, makes no OS call and changes nothing,
\* so that two calls leave the state, and make the closes, of one.
C8_CloseIdempotent ==
    [][(CallStep /\ op' = "close_uart" /\ ~BadBus(bus')) =>
          /\ pc' = "returned" /\ result' = 0
          /\ IF initialized[bus'] = 0
             THEN syscalls' = <<>> /\ SlotsUnchanged
             ELSE syscalls' = <<"close">> /\ ~IsOpen(openFds', fd[bus'])
          /\ initialized'[bus'] = 0
          /\ close_uart(World', bus') = Outcome(0, World')]_vars

\* close_uart closed bus 0, which was open on descriptor FirstFd.
C8_Witness ==
    /\ Returned /\ op = "close_uart" /\ bus = MIN_BUS
    /\ result = 0 /\ syscalls = <<"close">>
    /\ initialized[MIN_BUS] = 0 /\ fd[MIN_BUS] = FirstFd /\ ~IsOpen(openFds, FirstFd)

C10_InvalidUntouched ==
    [][(/\ CallStep /\ ~BadBus(bus')
        /\ \/ op' \in {"uart_read_bytes", "uart_send_bytes"} /\ bytes' < 1
           \/ /\ op' \in {"get_uart_fd", "flush_uart", "uart_send_bytes",
                          "uart_send_byte", "uart_read_bytes"}
              /\ initialized[bus'] = 0)
          => RefusedUntouched]_vars

\* uart_send_bytes with nothing to send was refused on bus 0, which is open.
C10_Witness ==
    /\ Returned /\ op = "uart_send_bytes" /\ bus = MIN_BUS /\ bytes = 0
    /\ result = -1 /\ syscalls = <<>>
    /\ initialized[MIN_BUS] = 1 /\ HoldsOpenHandle(MIN_BUS)

\* -------------------------------------------------------------------- C11
\* A uart_read_bytes on LoopTo, of as many bytes as the uart_send_bytes made on
\* LoopFrom just before it was given, has returned, and not by cancellation,
\* interruption or an OS error.
RoundTripDone ==
    /\ Returned /\ ReadCall
    /\ sent # NoSend
    /\ bus = LoopTo
    /\ bytes = Len(sent.data)
    /\ cause \in {"full", "timeout"}

\* C11 as claimed: on the loop-back, a send of a byte sequence followed at once by a
\* read of the same length on the other bus returns exactly the bytes sent, in order.
C11_RoundTrip ==
    RoundTripDone => (result = bytes /\ buf = sent.data)

\* C11 as amended: it does so when the send returned the full length (write()
\* accepted every byte) and the receiving bus was open with no unread input when the
\* send was made.
C11_CleanRoundTrip ==
    (RoundTripDone /\ sent.ret = Len(sent.data) /\ sent.clean)
        => (result = bytes /\ buf = sent.data /\ taken = sent.data)

\* Two bytes sent on LoopFrom came back from a read of two on LoopTo that polled
\* (timeout_ms = 0).
C11_Witness ==
    /\ RoundTripDone /\ sent.clean
    /\ sent.ret = 2 /\ sent.data = <<1, 0>>
    /\ timeout_ms = 0
    /\ result = 2 /\ buf = <<1, 0>>

\* -------------------------------------------------------------------- C12
\* C12: every uart_read_bytes that has entered its loop returns, whatever select()
\* and read() answer (a handle reported readable whose read() returns 0 included)
\* and whether or not get_state() ever becomes EXITING.
C12_ReadAlwaysReturns ==
    (ReadCall /\ pc = "while") ~> Returned

\* -------------------------------------------------------------------- C13
\* The descriptors open on the device of bus b (each was opened by initialize_uart).
HandlesOpenOn(b) == {f \in DOMAIN openFds : openFds[f] = b}

\* C13: whatever initialize_uart and close_uart calls have been made, failed ones
\* included, at most one descriptor opened for a bus is open.
C13_AtMostOneHandle ==
    \A b \in Buses : Cardinality(HandlesOpenOn(b)) <= 1

\* -------------------------------------------------------------------- C14
\* uart_read_bytes is in its loop.
InLoop == ReadCall /\ pc \in {"while", "select", "read"}

\* C14: in the loop of uart_read_bytes, bytes_read + bytes_left = bytes and
\* 0 <= bytes_read <= bytes; what read() is asked for is bytes_left, so that it
\* stores nothing beyond buf[bytes - 1], and only the first bytes_read places of the
\* buffer have been written; a value returned other than -1 is between 0 and bytes.
C14_CountsBounded ==
    /\ InLoop =>
           /\ bytes_read + bytes_left = bytes
           /\ bytes_read >= 0 /\ bytes_read <= bytes
           /\ Len(buf) = bytes
           /\ \A i \in 1..Len(buf) : buf[i] # -1 <=> i <= bytes_read
    /\ (ReadCall /\ pc = "read") =>
           \A got \in ReadResults : got <= bytes_left /\ bytes_read + got <= bytes
    /\ (Returned /\ ReadCall /\ result # -1) =>
           /\ result >= 0 /\ result <= bytes
           /\ bytes_read + bytes_left = bytes

\* One byte of two has been read and the loop is about to read the second.
C14_Witness ==
    /\ ReadCall /\ pc = "read"
    /\ bytes = 2 /\ bytes_read = 1 /\ bytes_left = 1
    /\ buf = <<0, -1>>
    /\ Len(rxq[openFds[ReadFd]]) = 2

\* -------------------------------------------------------------------- C15
\* C15: only initialize_uart and close_uart write initialized[] and fd[], and only
\* the entries of the bus they are called with: no step of flush_uart, get_uart_fd,
\* uart_send_bytes, uart_send_byte or uart_read_bytes changes either array, and a
\* call of initialize_uart or close_uart on bus i leaves the entries of every other
\* bus as they were.
C15_OnlyLifecycleWrites ==
    [][/\ op' \notin {"initialize_uart", "close_uart"} => UNCHANGED <<initialized, fd>>
       /\ op' \in {"initialize_uart", "close_uart"} =>
              \A j \in Buses \ {bus'} :
                  initialized'[j] = initialized[j] /\ fd'[j] = fd[j]]_vars

\* initialize_uart opened bus MAX_BUS while bus MIN_BUS was open, and bus MIN_BUS
\* still is.
C15_Witness ==
    /\ Returned /\ op = "initialize_uart" /\ bus = MAX_BUS /\ result = 0
    /\ initialized[MAX_BUS] = 1 /\ fd[MAX_BUS] = FirstFd + 1
    /\ initialized[MIN_BUS] = 1 /\ fd[MIN_BUS] = FirstFd
    /\ HoldsOpenHandle(MIN_BUS) /\ HoldsOpenHandle(MAX_BUS)

\* -------------------------------------------------------------------- C16
\* C16: when initialize_uart returns 0, the slot of its bus is initialized, fd[bus]
\* is the descriptor the call opened, open on the device of the bus, get_uart_fd
\* returns it, and no input received on the device is left unread: what a read that
\* follows takes arrived after initialize_uart had done with the device.
C16_OpenedClean ==
    [][(CallStep /\ op' = "initialize_uart" /\ result' = 0) =>
          /\ pc' = "returned" /\ ~BadBus(bus')
          /\ initialized'[bus'] = 1
          /\ "open" \in Range(syscalls')
          /\ IsOpen(openFds', fd'[bus']) /\ openFds'[fd'[bus']] = bus'
          /\ ~IsOpen(openFds, fd'[bus']) \/ (initialized[bus'] = 1 /\ fd[bus'] = fd'[bus'])
          /\ get_uart_fd(World', bus') = Outcome(fd'[bus'], World')
          /\ rxq'[bus'] = <<>>]_vars

\* initialize_uart succeeded on bus MIN_BUS, whose device a descriptor left open by a
\* failed initialize_uart had kept receiving; none of that input is left.
C16_Witness ==
    /\ Returned /\ op = "initialize_uart" /\ bus = MIN_BUS /\ result = 0
    /\ initialized[MIN_BUS] = 1 /\ fd[MIN_BUS] = FirstFd + 1
    /\ HandlesOpenOn(MIN_BUS) = {FirstFd, FirstFd + 1}
    /\ nextByte[MIN_BUS] = 1
    /\ rxq[MIN_BUS] = <<>>

\* -------------------------------------------------------------------- C17
\* C17: a uart_read_bytes that passed its sanity checks and comes to its loop for the
\* first time with get_state() already EXITING returns 0 there and then: it makes no
\* select() and no read(), and input waiting on the bus stays where it is.
C17_ExitingAtEntry ==
    [][(/\ ReadCall /\ pc = "while" /\ pc' # "while"
        /\ syscalls = <<>>
        /\ flow_state = "EXITING")
          => /\ pc' = "returned"
             /\ result' = 0
             /\ cause' = "exiting"
             /\ syscalls' = <<>>
             /\ UNCHANGED <<rxq, buf, initialized, fd, openFds>>]_vars

\* Called when get_state() was EXITING, a read of two bytes returned 0 at once, with
\* two bytes waiting on its bus.
C17_Witness ==
    /\ Returned /\ ReadCall /\ cause = "exiting"
    /\ flow_state = "EXITING" /\ ~exitInWait
    /\ bytes = 2 /\ result = 0 /\ syscalls = <<>> /\ waited = 0
    /\ buf = <<-1, -1>>
    /\ IsOpen(openFds, fd[bus]) /\ Len(rxq[openFds[fd[bus]]]) = 2

\* -------------------------------------------------------------------- C18
\* C18: an initialize_uart with a valid bus and a valid baudrate that returns -1
\* (open() or the configuration failed) leaves the bus not initialized; if the bus
\* was initialized, its descriptor was closed first and is not restored; get_uart_fd,
\* flush_uart, uart_send_bytes, uart_send_byte and uart_read_bytes then return -1 on
\* the bus; and the flag of a bus is set again only by an initialize_uart on that bus
\* that returns 0.
C18_FailedInitLeavesClosed ==
    [][/\ (/\ CallStep /\ op' = "initialize_uart"
           /\ ~BadBus(bus') /\ baudrate' \in ValidBauds /\ result' = -1) =>
              /\ initialized'[bus'] = 0
              /\ initialized[bus'] = 1 =>
                     /\ syscalls'[1] = "close"
                     /\ ~IsOpen(openFds', fd[bus']) \/ fd'[bus'] = fd[bus']
              /\ get_uart_fd(World', bus') = Outcome(-1, World')
              /\ \A ok \in BOOLEAN : flush_uart(World', bus', ok) = Outcome(-1, World')
              /\ \A n \in ByteCounts, accepted \in -1..MaxBytes :
                     /\ uart_send_bytes(World', bus', n, accepted) = Outcome(-1, World')
                     /\ uart_send_byte(World', bus', accepted) = Outcome(-1, World')
       /\ (CallStep /\ op' = "uart_read_bytes" /\ ~BadBus(bus') /\ initialized[bus'] = 0) =>
              (pc' = "returned" /\ result' = -1 /\ syscalls' = <<>>)
       /\ \A b \in Buses :
              (initialized[b] = 0 /\ initialized'[b] = 1) =>
                  (op' = "initialize_uart" /\ bus' = b /\ result' = 0)]_vars

\* initialize_uart failed in the configuration on bus MIN_BUS, which was open: the old
\* descriptor was closed, the new one is open, and the bus is not initialized.
C18_Witness ==
    /\ Returned /\ op = "initialize_uart" /\ bus = MIN_BUS /\ baudrate = 115200
    /\ result = -1
    /\ syscalls = <<"close", "open", "cfsetispeed", "cfsetospeed", "tcsetattr">>
    /\ initialized[MIN_BUS] = 0
    /\ IsOpen(openFds, fd[MIN_BUS])

====
